---- MODULE Spec2Model ----
(***************************************************************************)
(* Model of package fuse, mounted_file_system.go: the MountedFileSystem    *)
(* handle, the background goroutine mountAndServe with its readiness       *)
(* goroutine, and the public operations WaitForReady, Join and Unmount     *)
(* called from concurrent callers.                                         *)
(*                                                                         *)
(* Every statement of mountAndServe that touches shared state is one       *)
(* action, so that the order "write outcome, then close channel, then      *)
(* deferred c.Close()" is explicit in the state machine.                   *)
(***************************************************************************)
EXTENDS Naturals, Sequences, FiniteSets, Bags, TLC

\* ------------------------------------------------------------------ bounds
NumCallers == 2      \* concurrent caller goroutines

\* ------------------------------------------------------------ error values
\* A Go error value: nil, or an error carrying a message.  A message is the
\* sequence of the pieces it was concatenated from.
Nil == [isNil |-> TRUE, msg |-> <<>>]
Err(m) == [isNil |-> FALSE, msg |-> m]

\* errors.New(prefix + err.Error())
ErrorsNew(prefix, e) == Err(<<prefix>> \o e.msg)

\* Errors the collaborators can produce.
DriverErrs == {Err(<<"EPERM">>), Err(<<"ENOENT">>)}       \* bazilfuse.Mount
ReadyErrs == {Err(<<"mount helper failed">>)}           \* c.MountError
ServeErrs == {Err(<<"EIO">>)}                           \* server.Serve
UnmountErr == Err(<<"not mounted">>)                    \* bazilfuse.Unmount
CloseErrs == {Err(<<"EBUSY">>)}                         \* c.Close

\* ctx.Err() of a context whose Done channel is closed.
CtxKinds == {"Canceled"}
CtxErr(k) == Err(<<"context", k>>)

\* ------------------------------------------------------------------- state
VARIABLES
  mfs,                  \* result of Mount(): "unborn", "live", or "nil" (newServer failed)
  readyStatus,          \* mfs.readyStatus
  readyStatusAvailable, \* mfs.readyStatusAvailable: "open" or "closed"
  joinStatus,           \* mfs.joinStatus
  joinStatusAvailable,  \* mfs.joinStatusAvailable: "open" or "closed"
  pc,                   \* position of the goroutine mountAndServe
  err,                  \* its local err (result of bazilfuse.Mount / server.Serve)
  readyPc,              \* position of the readiness goroutine (lines 97-104)
  conn,                 \* the bazilfuse connection c
  mounted,              \* the kernel's view of dir: "no", "yes", "gone"
  calls,                \* invocation counts of the collaborators
  writes,               \* per outcome field, the goroutines that assigned it, in order
  panicked,             \* a close of a closed channel happened
  callers               \* the caller goroutines: a bag of caller records

coordVars == <<readyStatus, readyStatusAvailable, joinStatus, joinStatusAvailable>>
taskVars == <<pc, err, readyPc, writes, panicked>>
envVars == <<conn, mounted, calls>>
vars == <<mfs, readyStatus, readyStatusAvailable, joinStatus, joinStatusAvailable,
          pc, err, readyPc, conn, mounted, calls, writes, panicked, callers>>

\* closeErr is what the last c.Close() returned (nil before any call).
NoConn == [exists |-> FALSE, Ready |-> "open", MountError |-> Nil, closeCalls |-> 0,
           closeErr |-> Nil]

\* No call in flight: nothing was found on entry.
NoEntry == [sig |-> "open", ctx |-> "live"]

\* tracked marks the one caller that TrackedSpec follows through its calls;
\* the code does not distinguish callers.
IdleCaller == [op |-> "none", pc |-> "idle", ctx |-> "live", at |-> NoEntry,
               ret |-> Nil, readOutcome |-> FALSE, tracked |-> FALSE]

Init ==
  /\ mfs = "unborn"
  /\ readyStatus = Nil
  /\ readyStatusAvailable = "open"
  /\ joinStatus = Nil
  /\ joinStatusAvailable = "open"
  /\ pc = "unborn"
  /\ err = Nil
  /\ readyPc = "unborn"
  /\ conn = NoConn
  /\ mounted = "no"
  /\ calls = [Mount |-> 0, Serve |-> 0]
  /\ writes = [readyStatus |-> <<>>, joinStatus |-> <<>>]
  /\ panicked = FALSE
  /\ callers = [r \in {IdleCaller} |-> NumCallers]

\* --------------------------------------------------------------- func Mount
\* newServer(fs) fails: Mount returns (nil, err) and nothing is started.
MountNewServerFails ==
  /\ mfs = "unborn"
  /\ mfs' = "nil"
  /\ UNCHANGED <<coordVars, taskVars, envVars, callers>>

\* Mount builds the struct with two open channels and starts mountAndServe.
MountStart ==
  /\ mfs = "unborn"
  /\ mfs' = "live"
  /\ readyStatus' = Nil
  /\ joinStatus' = Nil
  /\ readyStatusAvailable' = "open"
  /\ joinStatusAvailable' = "open"
  /\ pc' = "mount"
  /\ UNCHANGED <<err, readyPc, writes, panicked, envVars, callers>>

\* ------------------------------------------------------------ channel close
\* close(ch): closing a closed channel panics.
Close(ch) == "closed"
ClosePanics(ch) == ch = "closed"


\* Faulty variant of MountFailureStatus: the message drops err.Error().
MountFailureStatus_DropsCause(e) == Err(<<"bazilfuse.Mount: ">>)

\* ----------------------------------------------------- func mountAndServe
\* readyStatus assigned on the driver-failure path (line 88).
MountFailureStatus(e) == ErrorsNew("bazilfuse.Mount: ", e)

\* joinStatus assigned on the Serve-error path (line 109).
ServeFailureStatus(e) == ErrorsNew("Serve: ", e)

\* Line 86, err != nil: bazilfuse.Mount fails with e.
DriverMountFails(e) ==
  /\ pc = "mount" /\ ~panicked
  /\ calls' = [calls EXCEPT !.Mount = @ + 1]
  /\ err' = e
  /\ pc' = "setReadyErr"
  /\ UNCHANGED <<mfs, coordVars, readyPc, writes, panicked, conn, mounted, callers>>

\* Line 86, err == nil: bazilfuse.Mount returns a connection whose Ready
\* channel is still open.
DriverMountSucceeds ==
  /\ pc = "mount" /\ ~panicked
  /\ calls' = [calls EXCEPT !.Mount = @ + 1]
  /\ err' = Nil
  /\ conn' = [NoConn EXCEPT !.exists = TRUE]
  /\ pc' = "spawn"
  /\ UNCHANGED <<mfs, coordVars, readyPc, writes, panicked, mounted, callers>>

\* Line 88.
SetReadyStatusMountFailed ==
  /\ pc = "setReadyErr" /\ ~panicked
  /\ readyStatus' = MountFailureStatus(err)
  /\ writes' = [writes EXCEPT !.readyStatus = Append(@, "mountAndServe")]
  /\ pc' = "closeReadyErr"
  /\ UNCHANGED <<mfs, readyStatusAvailable, joinStatus, joinStatusAvailable,
                 err, readyPc, panicked, envVars, callers>>


\* Faulty variant of CloseReadyMountFailed: returns on the failure path
\* without closing readyStatusAvailable.
CloseReadyMountFailed_NoClose ==
  /\ pc = "closeReadyErr" /\ ~panicked
  /\ pc' = "mountFailed"
  /\ UNCHANGED <<mfs, coordVars, err, readyPc, writes, panicked, envVars, callers>>

\* Faulty variant of CloseReadyMountFailed: also closes joinStatusAvailable
\* on the failure path.
CloseReadyMountFailed_ClosesJoin ==
  /\ pc = "closeReadyErr" /\ ~panicked
  /\ readyStatusAvailable' = "closed"
  /\ joinStatusAvailable' = "closed"
  /\ panicked' = FALSE
  /\ pc' = "mountFailed"
  /\ UNCHANGED <<mfs, readyStatus, joinStatus, err, readyPc, writes, envVars, callers>>

\* Lines 89-90: close the channel and return; nothing was deferred yet.
CloseReadyMountFailed ==
  /\ pc = "closeReadyErr" /\ ~panicked
  /\ readyStatusAvailable' = Close(readyStatusAvailable)
  /\ panicked' = ClosePanics(readyStatusAvailable)
  /\ pc' = "mountFailed"
  /\ UNCHANGED <<mfs, readyStatus, joinStatus, joinStatusAvailable,
                 err, readyPc, writes, envVars, callers>>


\* Faulty variant of SpawnReadiness: the go statement is missing.
SpawnReadiness_NoGoroutine ==
  /\ pc = "spawn" /\ ~panicked
  /\ pc' = "callServe"
  /\ UNCHANGED <<mfs, coordVars, err, readyPc, writes, panicked, envVars, callers>>

\* Faulty variant of SpawnReadiness: c.Close() is called on the spot instead
\* of being deferred.
SpawnReadiness_ClosesNow ==
  /\ pc = "spawn" /\ ~panicked
  /\ readyPc' = "waitReady"
  /\ conn' = [conn EXCEPT !.closeCalls = @ + 1]
  /\ pc' = "callServe"
  /\ UNCHANGED <<mfs, coordVars, err, writes, panicked, mounted, calls, callers>>

\* Lines 93-104: register the deferred c.Close() and start the readiness
\* goroutine.
SpawnReadiness ==
  /\ pc = "spawn" /\ ~panicked
  /\ readyPc' = "waitReady"
  /\ pc' = "callServe"
  /\ UNCHANGED <<mfs, coordVars, err, writes, panicked, envVars, callers>>

\* Line 108: server.Serve(c) is entered.
ServeCall ==
  /\ pc = "callServe" /\ ~panicked
  /\ calls' = [calls EXCEPT !.Serve = @ + 1]
  /\ pc' = "serving"
  /\ UNCHANGED <<mfs, coordVars, err, readyPc, writes, panicked, conn, mounted, callers>>

\* What a blocked Serve can return: an error while the mount is in place,
\* nil once the directory has been unmounted.
ServeResults == IF mounted = "gone" THEN {Nil} ELSE ServeErrs


\* Faulty variant of ServeReturns: a failed Serve is called again.
ServeReturns_Retries(r) ==
  /\ pc = "serving" /\ ~panicked
  /\ r \in ServeResults
  /\ err' = r
  /\ pc' = IF ~r.isNil THEN "callServe" ELSE "closeJoinOk"
  /\ UNCHANGED <<mfs, coordVars, readyPc, writes, panicked, envVars, callers>>

\* Line 108: server.Serve(c) returns r; the if picks the branch.
ServeReturns(r) ==
  /\ pc = "serving" /\ ~panicked
  /\ r \in ServeResults
  /\ err' = r
  /\ pc' = IF ~r.isNil THEN "setJoinErr" ELSE "closeJoinOk"
  /\ UNCHANGED <<mfs, coordVars, readyPc, writes, panicked, envVars, callers>>


\* Faulty variant of SetJoinStatusServeFailed: stores the Serve error in
\* readyStatus.
SetJoinStatusServeFailed_WrongField ==
  /\ pc = "setJoinErr" /\ ~panicked
  /\ readyStatus' = ServeFailureStatus(err)
  /\ writes' = [writes EXCEPT !.readyStatus = Append(@, "mountAndServe")]
  /\ pc' = "closeJoinErr"
  /\ UNCHANGED <<mfs, joinStatus, readyStatusAvailable, joinStatusAvailable,
                 err, readyPc, panicked, envVars, callers>>

\* Line 109.
SetJoinStatusServeFailed ==
  /\ pc = "setJoinErr" /\ ~panicked
  /\ joinStatus' = ServeFailureStatus(err)
  /\ writes' = [writes EXCEPT !.joinStatus = Append(@, "mountAndServe")]
  /\ pc' = "closeJoinErr"
  /\ UNCHANGED <<mfs, readyStatus, readyStatusAvailable, joinStatusAvailable,
                 err, readyPc, panicked, envVars, callers>>


\* Faulty variant of CloseJoinServeFailed: the return of line 111 is missing,
\* so control falls through to line 115.
CloseJoinServeFailed_NoReturn ==
  /\ pc = "closeJoinErr" /\ ~panicked
  /\ joinStatusAvailable' = Close(joinStatusAvailable)
  /\ panicked' = ClosePanics(joinStatusAvailable)
  /\ pc' = "closeJoinOk"
  /\ UNCHANGED <<mfs, readyStatus, readyStatusAvailable, joinStatus,
                 err, readyPc, writes, envVars, callers>>

\* Lines 110-111: close the channel, then return into the deferred call.
CloseJoinServeFailed ==
  /\ pc = "closeJoinErr" /\ ~panicked
  /\ joinStatusAvailable' = Close(joinStatusAvailable)
  /\ panicked' = ClosePanics(joinStatusAvailable)
  /\ pc' = "deferredClose"
  /\ UNCHANGED <<mfs, readyStatus, readyStatusAvailable, joinStatus,
                 err, readyPc, writes, envVars, callers>>


\* Faulty variant of CloseJoinOk: returns after a clean Serve without closing
\* joinStatusAvailable.
CloseJoinOk_NoClose ==
  /\ pc = "closeJoinOk" /\ ~panicked
  /\ pc' = "deferredClose"
  /\ UNCHANGED <<mfs, coordVars, err, readyPc, writes, panicked, envVars, callers>>

\* Line 115: Serve returned nil; joinStatus keeps its zero value.
CloseJoinOk ==
  /\ pc = "closeJoinOk" /\ ~panicked
  /\ joinStatusAvailable' = Close(joinStatusAvailable)
  /\ panicked' = ClosePanics(joinStatusAvailable)
  /\ pc' = "deferredClose"
  /\ UNCHANGED <<mfs, readyStatus, readyStatusAvailable, joinStatus,
                 err, readyPc, writes, envVars, callers>>

\* Line 93, run at function exit: the deferred c.Close() returns cr, which
\* the defer statement discards.
DeferredConnClose(cr) ==
  /\ pc = "deferredClose" /\ ~panicked
  /\ conn' = [conn EXCEPT !.closeCalls = @ + 1, !.closeErr = cr]
  /\ pc' = "done"
  /\ UNCHANGED <<mfs, coordVars, err, readyPc, writes, panicked, mounted, calls, callers>>

\* ------------------------------------- the readiness goroutine (97-104)
\* Line 99: <-c.Ready succeeds once the connection closed its Ready channel.
ReadinessReceives ==
  /\ readyPc = "waitReady" /\ ~panicked
  /\ conn.Ready = "closed"
  /\ readyPc' = "setReady"
  /\ UNCHANGED <<mfs, coordVars, pc, err, writes, panicked, envVars, callers>>


\* Faulty variant of SetReadyStatusFromConn: wraps c.MountError like the
\* other two outcomes, turning a nil into an error.
SetReadyStatusFromConn_Wraps ==
  /\ readyPc = "setReady" /\ ~panicked
  /\ readyStatus' = ErrorsNew("Ready: ", conn.MountError)
  /\ writes' = [writes EXCEPT !.readyStatus = Append(@, "readiness")]
  /\ readyPc' = "closeReady"
  /\ UNCHANGED <<mfs, readyStatusAvailable, joinStatus, joinStatusAvailable,
                 pc, err, panicked, envVars, callers>>

\* Line 102.
SetReadyStatusFromConn ==
  /\ readyPc = "setReady" /\ ~panicked
  /\ readyStatus' = conn.MountError
  /\ writes' = [writes EXCEPT !.readyStatus = Append(@, "readiness")]
  /\ readyPc' = "closeReady"
  /\ UNCHANGED <<mfs, readyStatusAvailable, joinStatus, joinStatusAvailable,
                 pc, err, panicked, envVars, callers>>


\* Faulty variant of CloseReadyFromConn: assigns readyStatus once more while
\* closing the channel.
CloseReadyFromConn_WritesAgain ==
  /\ readyPc = "closeReady" /\ ~panicked
  /\ readyStatusAvailable' = "closed"
  /\ readyStatus' = Nil
  /\ writes' = [writes EXCEPT !.readyStatus = Append(@, "readiness")]
  /\ panicked' = (readyStatusAvailable = "closed")
  /\ readyPc' = "done"
  /\ UNCHANGED <<mfs, joinStatus, joinStatusAvailable, pc, err, envVars, callers>>

\* Line 103.
CloseReadyFromConn ==
  /\ readyPc = "closeReady" /\ ~panicked
  /\ readyStatusAvailable' = Close(readyStatusAvailable)
  /\ panicked' = ClosePanics(readyStatusAvailable)
  /\ readyPc' = "done"
  /\ UNCHANGED <<mfs, readyStatus, joinStatus, joinStatusAvailable,
                 pc, err, writes, envVars, callers>>

\* ------------------------------------------------- the bazilfuse connection
\* The connection finishes mounting in the background: it sets MountError
\* and closes Ready.  A nil MountError means dir is now mounted.
ConnReadyFires(me) ==
  /\ conn.exists /\ conn.Ready = "open" /\ ~panicked
  /\ conn' = [conn EXCEPT !.Ready = "closed", !.MountError = me]
  /\ mounted' = IF me.isNil THEN "yes" ELSE mounted
  /\ UNCHANGED <<mfs, coordVars, taskVars, calls, callers>>

\* ------------------------------------------------------- caller goroutines
\* Caller goroutines carry no identity: the state holds one record per
\* caller, as a bag.  Caller r moves on to record r2.
Callers == BagToSet(callers)
Becomes(r, r2) == (callers (-) SetToBag({r})) (+) SetToBag({r2})

\* A caller may start an operation when it holds the handle and is not
\* inside another call.
CanCall(r) ==
  /\ mfs = "live" /\ ~panicked
  /\ BagIn(r, callers)
  /\ r.pc \in {"idle", "returned"}

\* A caller is inside the select of op.
InSelect(r, op) ==
  /\ ~panicked
  /\ BagIn(r, callers)
  /\ r.pc = "select" /\ r.op = op

\* The record of a call that has just entered its select: the operation, the
\* context, and what the call found on entry (at): the state of its channel
\* and of its context.
Entered(op, k, ch) ==
  [op |-> op, pc |-> "select", ctx |-> k, at |-> [sig |-> ch, ctx |-> k],
   ret |-> Nil, readOutcome |-> FALSE, tracked |-> FALSE]

\* A caller enters the select of WaitForReady (line 51) with a context that
\* is live or already done (k).
CallWaitForReady(r, k) ==
  /\ CanCall(r)
  /\ callers' = Becomes(r, [Entered("WaitForReady", k, readyStatusAvailable)
                              EXCEPT !.tracked = r.tracked])
  /\ UNCHANGED <<mfs, coordVars, taskVars, envVars>>

\* A caller enters the select of Join (line 63).
CallJoin(r, k) ==
  /\ CanCall(r)
  /\ callers' = Becomes(r, [Entered("Join", k, joinStatusAvailable)
                              EXCEPT !.tracked = r.tracked])
  /\ UNCHANGED <<mfs, coordVars, taskVars, envVars>>

\* The caller's context is cancelled while the call waits.
CtxDone(r, k) ==
  /\ ~panicked /\ BagIn(r, callers)
  /\ r.pc = "select" /\ r.ctx = "live"
  /\ callers' = Becomes(r, [r EXCEPT !.ctx = k])
  /\ UNCHANGED <<mfs, coordVars, taskVars, envVars>>

\* The caller record after its select took the channel case (lines 52-53,
\* 64-65): it read the stored status and returns it.
ReturnStatus(r, status) ==
  [r EXCEPT !.pc = "returned", !.ret = status, !.readOutcome = TRUE]

\* The caller record after its select took the ctx.Done() case (lines 54-55,
\* 66-67): it returns ctx.Err().
ReturnCtxErr(r) ==
  [r EXCEPT !.pc = "returned", !.ret = CtxErr(r.ctx)]


\* Faulty variant of WaitForReadyReceives: returns joinStatus.
WaitForReadyReceives_WrongField(r) ==
  /\ InSelect(r, "WaitForReady")
  /\ readyStatusAvailable = "closed"
  /\ callers' = Becomes(r, ReturnStatus(r, joinStatus))
  /\ UNCHANGED <<mfs, coordVars, taskVars, envVars>>

\* WaitForReady, case <-mfs.readyStatusAvailable.
WaitForReadyReceives(r) ==
  /\ InSelect(r, "WaitForReady")
  /\ readyStatusAvailable = "closed"
  /\ callers' = Becomes(r, ReturnStatus(r, readyStatus))
  /\ UNCHANGED <<mfs, coordVars, taskVars, envVars>>


\* Faulty variant of WaitForReadyCancelled: the ctx.Done() case returns
\* mfs.readyStatus.
WaitForReadyCancelled_ReadsStatus(r) ==
  /\ InSelect(r, "WaitForReady")
  /\ r.ctx # "live"
  /\ callers' = Becomes(r, ReturnStatus(r, readyStatus))
  /\ UNCHANGED <<mfs, coordVars, taskVars, envVars>>

\* Faulty variant of WaitForReadyCancelled: the cancellation is published as
\* the mount's outcome.
WaitForReadyCancelled_Publishes(r) ==
  /\ InSelect(r, "WaitForReady")
  /\ r.ctx # "live"
  /\ callers' = Becomes(r, ReturnCtxErr(r))
  /\ readyStatus' = CtxErr(r.ctx)
  /\ readyStatusAvailable' = "closed"
  /\ UNCHANGED <<mfs, joinStatus, joinStatusAvailable, taskVars, envVars>>

\* WaitForReady, case <-ctx.Done().  When both cases are ready the select
\* picks either, so this action needs only a done context.
WaitForReadyCancelled(r) ==
  /\ InSelect(r, "WaitForReady")
  /\ r.ctx # "live"
  /\ callers' = Becomes(r, ReturnCtxErr(r))
  /\ UNCHANGED <<mfs, coordVars, taskVars, envVars>>


\* Faulty variant of JoinReceives: the receive consumes the signal, as if a
\* value had been sent on the channel instead of the channel being closed.
JoinReceives_Consumes(r) ==
  /\ InSelect(r, "Join")
  /\ joinStatusAvailable = "closed"
  /\ callers' = Becomes(r, ReturnStatus(r, joinStatus))
  /\ joinStatusAvailable' = "open"
  /\ UNCHANGED <<mfs, readyStatus, readyStatusAvailable, joinStatus, taskVars, envVars>>

\* Join, case <-mfs.joinStatusAvailable.
JoinReceives(r) ==
  /\ InSelect(r, "Join")
  /\ joinStatusAvailable = "closed"
  /\ callers' = Becomes(r, ReturnStatus(r, joinStatus))
  /\ UNCHANGED <<mfs, coordVars, taskVars, envVars>>


\* Faulty variant of JoinCancelled: ctx.Done() is looked at only once
\* joinStatusAvailable is closed.
JoinCancelled_AfterSignal(r) ==
  /\ InSelect(r, "Join")
  /\ r.ctx # "live"
  /\ joinStatusAvailable = "closed"
  /\ callers' = Becomes(r, ReturnCtxErr(r))
  /\ UNCHANGED <<mfs, coordVars, taskVars, envVars>>

\* Join, case <-ctx.Done().
JoinCancelled(r) ==
  /\ InSelect(r, "Join")
  /\ r.ctx # "live"
  /\ callers' = Becomes(r, ReturnCtxErr(r))
  /\ UNCHANGED <<mfs, coordVars, taskVars, envVars>>

\* bazilfuse.Unmount(dir): detaches dir when it is mounted, fails otherwise.
DriverUnmount == IF mounted = "yes" THEN Nil ELSE UnmountErr


\* Faulty variant of Unmount: reports termination itself instead of leaving
\* it to mountAndServe.
Unmount_SignalsJoin(r) ==
  /\ CanCall(r)
  /\ mounted' = IF DriverUnmount.isNil THEN "gone" ELSE mounted
  /\ joinStatusAvailable' = "closed"
  /\ callers' = Becomes(r,
       [op |-> "Unmount", pc |-> "returned", ctx |-> "live", at |-> NoEntry,
        ret |-> DriverUnmount, readOutcome |-> FALSE, tracked |-> r.tracked])
  /\ UNCHANGED <<mfs, readyStatus, readyStatusAvailable, joinStatus, taskVars, conn, calls>>

\* Unmount (line 75): forwards to the driver and returns its result.
Unmount(r) ==
  /\ CanCall(r)
  /\ mounted' = IF DriverUnmount.isNil THEN "gone" ELSE mounted
  /\ callers' = Becomes(r,
       [op |-> "Unmount", pc |-> "returned", ctx |-> "live", at |-> NoEntry,
        ret |-> DriverUnmount, readOutcome |-> FALSE, tracked |-> r.tracked])
  /\ UNCHANGED <<mfs, coordVars, taskVars, conn, calls>>

\* ------------------------------------------------------------ specification
CtxStates == {"live"} \cup CtxKinds

Next ==
  \/ MountNewServerFails
  \/ MountStart
  \/ \E e \in DriverErrs : DriverMountFails(e)
  \/ DriverMountSucceeds
  \/ SetReadyStatusMountFailed
  \/ CloseReadyMountFailed
  \/ SpawnReadiness
  \/ ServeCall
  \/ \E r \in ServeErrs \cup {Nil} : ServeReturns(r)
  \/ SetJoinStatusServeFailed
  \/ CloseJoinServeFailed
  \/ CloseJoinOk
  \/ \E cr \in CloseErrs \cup {Nil} : DeferredConnClose(cr)
  \/ ReadinessReceives
  \/ SetReadyStatusFromConn
  \/ CloseReadyFromConn
  \/ \E me \in ReadyErrs \cup {Nil} : ConnReadyFires(me)
  \/ \E r \in Callers, k \in CtxStates : CallWaitForReady(r, k)
  \/ \E r \in Callers, k \in CtxStates : CallJoin(r, k)
  \/ \E r \in Callers, k \in CtxKinds : CtxDone(r, k)
  \/ \E r \in Callers : WaitForReadyReceives(r)
  \/ \E r \in Callers : WaitForReadyCancelled(r)
  \/ \E r \in Callers : JoinReceives(r)
  \/ \E r \in Callers : JoinCancelled(r)
  \/ \E r \in Callers : Unmount(r)

Spec == Init /\ [][Next]_vars

TypeOK ==
  /\ mfs \in {"unborn", "live", "nil"}
  /\ readyStatusAvailable \in {"open", "closed"}
  /\ joinStatusAvailable \in {"open", "closed"}
  /\ mounted \in {"no", "yes", "gone"}
  /\ panicked \in BOOLEAN

\* The steps the Go scheduler runs whenever they are enabled: the statements
\* of mountAndServe and of the readiness goroutine.
OrchestrationStep ==
  \/ SetReadyStatusMountFailed \/ CloseReadyMountFailed \/ SpawnReadiness
  \/ ServeCall \/ SetJoinStatusServeFailed \/ CloseJoinServeFailed
  \/ CloseJoinOk \/ \E cr \in CloseErrs \cup {Nil} : DeferredConnClose(cr)

ReadinessStep == ReadinessReceives \/ SetReadyStatusFromConn \/ CloseReadyFromConn

\* bazilfuse.Mount returns, one way or the other.
DriverMountReturns == DriverMountSucceeds \/ \E e \in DriverErrs : DriverMountFails(e)

\* Fair executions: goroutines that can run do run, the driver's Mount
\* returns, the connection reports readiness, and Serve returns once dir has
\* been unmounted.  Serve errors, callers, cancellations and Unmount calls
\* are not forced.
FairSpec ==
  /\ Spec
  /\ WF_vars(OrchestrationStep)
  /\ WF_vars(ReadinessStep)
  /\ WF_vars(DriverMountReturns)
  /\ WF_vars(\E me \in ReadyErrs \cup {Nil} : ConnReadyFires(me))
  /\ WF_vars(ServeReturns(Nil))

\* A caller goroutine returns from the select it is in (either case).
CallerReturns(r) ==
  \/ WaitForReadyReceives(r) \/ WaitForReadyCancelled(r)
  \/ JoinReceives(r) \/ JoinCancelled(r)

\* The callers of TrackedSpec: one marked caller, so that a single call can be
\* followed from entry to return, next to NumCallers - 2 unmarked ones.  (A
\* marked caller is not interchangeable with the others, which makes it as
\* costly as several unmarked callers.)
TrackedCallers ==
  IF NumCallers > 2
    THEN SetToBag({[IdleCaller EXCEPT !.tracked = TRUE]})
           (+) [r \in {IdleCaller} |-> NumCallers - 2]
    ELSE SetToBag({[IdleCaller EXCEPT !.tracked = TRUE]})

InitTracked ==
  /\ mfs = "unborn"
  /\ readyStatus = Nil
  /\ readyStatusAvailable = "open"
  /\ joinStatus = Nil
  /\ joinStatusAvailable = "open"
  /\ pc = "unborn"
  /\ err = Nil
  /\ readyPc = "unborn"
  /\ conn = NoConn
  /\ mounted = "no"
  /\ calls = [Mount |-> 0, Serve |-> 0]
  /\ writes = [readyStatus |-> <<>>, joinStatus |-> <<>>]
  /\ panicked = FALSE
  /\ callers = TrackedCallers

\* Fairness for the marked caller only: a goroutine whose select has a ready
\* case is runnable, and the scheduler runs it.  Nothing else is forced: the
\* mount may hang, Serve may block forever.
TrackedSpec ==
  /\ InitTracked /\ [][Next]_vars
  /\ WF_vars(\E r \in Callers : r.tracked /\ CallerReturns(r))

\* ------------------------------------------------------------------ claims
ReadyClosed == readyStatusAvailable = "closed"
JoinClosed == joinStatusAvailable = "closed"

\* A call of op that has returned.
Returned(r, op) == r.pc = "returned" /\ r.op = op

\* The outcome field a wait operation returns.
StatusOf(op) == IF op = "WaitForReady" THEN readyStatus ELSE joinStatus

\* bazilfuse.Mount has returned an error / a connection.
DriverFailed == calls.Mount = 1 /\ ~conn.exists
DriverSucceeded == calls.Mount = 1 /\ conn.exists

\* server.Serve has returned (err then holds what it returned).
ServeReturned == pc \in {"setJoinErr", "closeJoinErr", "closeJoinOk", "deferredClose", "done"}

\* Everything but the caller records.
nonCallerVars == <<mfs, coordVars, taskVars, envVars>>

\* C1: once Mount has started mountAndServe, readyStatusAvailable is
\* eventually closed in every fair execution; when the driver failed it is
\* closed by mountAndServe itself, and when the driver succeeded it is closed
\* by the readiness goroutine, whatever Serve is doing.
C1_ReadyEventuallySignaled ==
  /\ (mfs = "live") ~> ReadyClosed
  /\ [](ReadyClosed =>
          IF conn.exists
            THEN readyPc = "done" /\ conn.Ready = "closed"
            ELSE pc = "mountFailed" /\ readyPc = "unborn")

\* C1 witness: readiness was signaled by the readiness goroutine after Serve
\* had returned and the connection had been closed, with no caller waiting.
C1_Witness ==
  /\ ReadyClosed /\ readyPc = "done"
  /\ pc = "done" /\ conn.closeCalls = 1
  /\ \A r \in Callers : r.pc = "idle"

\* C2 as stated: each outcome field has been written exactly once by the
\* time its channel is closed.
C2_Original ==
  /\ Len(writes.readyStatus) <= 1 /\ Len(writes.joinStatus) <= 1
  /\ ReadyClosed => Len(writes.readyStatus) = 1
  /\ JoinClosed => Len(writes.joinStatus) = 1

\* C2 amended: each outcome field is written at most once, by one goroutine,
\* only while its channel is still open and never in the step that closes
\* it; readyStatus has been written exactly once when readyStatusAvailable
\* is closed, joinStatus exactly once when Serve returned an error and not at
\* all when Serve returned nil; after the close the field never changes, and
\* a caller that received from the channel returned the field's value.
C2_WriteOnceBeforeSignal ==
  /\ [](/\ Len(writes.readyStatus) <= 1 /\ Len(writes.joinStatus) <= 1
        /\ ReadyClosed => Len(writes.readyStatus) = 1
        /\ JoinClosed => Len(writes.joinStatus) = (IF err.isNil THEN 0 ELSE 1)
        /\ \A r \in Callers :
             (r.pc = "returned" /\ r.readOutcome) => r.ret = StatusOf(r.op))
  /\ [][/\ (writes'.readyStatus # writes.readyStatus \/ readyStatus' # readyStatus)
             => (~ReadyClosed /\ ~ReadyClosed')
        /\ (writes'.joinStatus # writes.joinStatus \/ joinStatus' # joinStatus)
             => (~JoinClosed /\ ~JoinClosed')]_vars

\* C2 witness: both channels are closed, readyStatus was written once by the
\* readiness goroutine, joinStatus was never written (Serve returned nil),
\* and a caller has read each outcome.
C2_Witness ==
  /\ ReadyClosed /\ JoinClosed
  /\ writes.readyStatus = <<"readiness">> /\ writes.joinStatus = <<>>
  /\ \E r \in Callers : Returned(r, "WaitForReady") /\ r.readOutcome
  /\ \E r \in Callers : Returned(r, "Join") /\ r.readOutcome

\* C3: when bazilfuse.Mount fails with err, readyStatus becomes an error
\* whose message is "bazilfuse.Mount: " followed by err's message, the
\* channel is eventually closed, every returned WaitForReady call whose
\* context is not done returned that error, and Serve is never called.
C3_DriverFailure ==
  /\ [](DriverFailed =>
          /\ err \in DriverErrs
          /\ calls.Serve = 0
          /\ pc \in {"setReadyErr", "closeReadyErr", "mountFailed"}
          /\ pc # "setReadyErr" =>
               ~readyStatus.isNil /\ readyStatus.msg = <<"bazilfuse.Mount: ">> \o err.msg
          /\ pc = "mountFailed" => ReadyClosed
          /\ \A r \in Callers :
               (Returned(r, "WaitForReady") /\ r.ctx = "live") =>
                  /\ ~r.ret.isNil
                  /\ r.ret.msg = <<"bazilfuse.Mount: ">> \o err.msg)
  /\ DriverFailed ~> (DriverFailed /\ ReadyClosed)

\* C3 witness: the driver failed with EPERM and a WaitForReady call with a
\* live context has returned the wrapped error; Serve was not called.
C3_Witness ==
  /\ DriverFailed /\ err = Err(<<"EPERM">>) /\ calls.Serve = 0
  /\ \E r \in Callers :
       /\ Returned(r, "WaitForReady") /\ r.ctx = "live"
       /\ r.ret = Err(<<"bazilfuse.Mount: ", "EPERM">>)

\* C4: joinStatusAvailable is closed only after the driver mount succeeded
\* and Serve was called and returned; when the driver mount failed it is
\* never closed and no Join call with a live context has returned.
C4_JoinOnlyAfterServe ==
  /\ JoinClosed =>
       /\ DriverSucceeded /\ calls.Serve = 1
       /\ pc \in {"deferredClose", "done"}
  /\ DriverFailed =>
       /\ ~JoinClosed
       /\ \A r \in Callers : ~(Returned(r, "Join") /\ r.ctx = "live")

\* C4 witness: the mount failed, mountAndServe has returned, and a Join call
\* with a live context is blocked in its select.
C4_Witness ==
  /\ DriverFailed /\ pc = "mountFailed" /\ ~JoinClosed
  /\ \E r \in Callers : r.op = "Join" /\ r.pc = "select" /\ r.ctx = "live"

\* C5 as stated: every WaitForReady call entered after readyStatusAvailable
\* was closed returns readyStatus, whatever the state of its context.
C5_Original ==
  \A r \in Callers :
    (Returned(r, "WaitForReady") /\ r.at.sig = "closed") => r.ret = readyStatus

\* C5 amended: among the WaitForReady calls entered after
\* readyStatusAvailable was closed, every call whose context is not done
\* returns readyStatus, so all of them return the identical result; a call
\* whose context is done returns readyStatus or its ctx.Err().
C5_UncancelledCallersAgree ==
  \A r \in Callers :
    (Returned(r, "WaitForReady") /\ r.at.sig = "closed") =>
       /\ ReadyClosed
       /\ r.ctx = "live" => (r.ret = readyStatus /\ r.readOutcome)
       /\ r.ctx # "live" => r.ret \in {readyStatus, CtxErr(r.ctx)}

\* C5 witness: two WaitForReady calls entered after the close, with live
\* contexts, have both returned the same non-nil readyStatus.
C5_Witness ==
  /\ ReadyClosed /\ ~readyStatus.isNil
  /\ \E r \in Callers :
       /\ Returned(r, "WaitForReady") /\ r.at.sig = "closed" /\ r.ctx = "live"
       /\ r.ret = readyStatus
       /\ CopiesIn(r, callers) >= 2

\* C6 as stated: once Serve has returned an error, a Join call that received
\* from joinStatusAvailable returned an error whose message is "Serve: "
\* followed by that error's message, and c.Close() has been called exactly
\* once by then.
C6_JoinAfterServeError ==
  \A r \in Callers :
    (Returned(r, "Join") /\ r.readOutcome /\ ServeReturned /\ ~err.isNil) =>
       /\ ~r.ret.isNil
       /\ r.ret.msg = <<"Serve: ">> \o err.msg
       /\ conn.closeCalls = 1

\* C7: when dir has been unmounted while Serve is blocked, Serve returns
\* nil, joinStatusAvailable is eventually closed with joinStatus nil, and
\* every returned Join call whose context is not done returned nil.
C7_UnmountEndsServe ==
  /\ (pc = "serving" /\ mounted = "gone") ~> (JoinClosed /\ joinStatus = Nil)
  /\ [][(pc = "serving" /\ mounted = "gone") => pc' \in {"serving", "closeJoinOk"}]_vars
  /\ []((ServeReturned /\ err.isNil) =>
          /\ mounted = "gone"
          /\ joinStatus = Nil
          /\ \A r \in Callers : (Returned(r, "Join") /\ r.ctx = "live") => r.ret = Nil)

\* C7 witness: an Unmount call succeeded, Serve returned nil, and a Join
\* call entered after the close with a live context returned nil.
C7_Witness ==
  /\ mounted = "gone" /\ JoinClosed /\ err.isNil /\ joinStatus = Nil
  /\ \E r \in Callers : Returned(r, "Unmount") /\ r.ret = Nil
  /\ \E r \in Callers :
       Returned(r, "Join") /\ r.at.sig = "closed" /\ r.ctx = "live" /\ r.ret = Nil

\* A step in which some caller enters, waits in or returns from WaitForReady
\* or Join (cancellation of its context included).
WaitStep ==
  /\ callers' # callers
  /\ \E r \in Callers, r2 \in BagToSet(callers') :
       r2.op \in {"WaitForReady", "Join"} /\ callers' = Becomes(r, r2)

\* C8: a WaitForReady call entered with a context that is already done,
\* while readyStatusAvailable is never closed during the call, returns
\* ctx.Err() without reading readyStatus, and no step of the call changes
\* an outcome field or a channel.
C8_CancelledBeforeReady ==
  /\ [](\A r \in Callers :
          (Returned(r, "WaitForReady") /\ r.at.ctx # "live" /\ ~ReadyClosed) =>
             r.ret = CtxErr(r.at.ctx) /\ ~r.readOutcome)
  /\ [][(WaitStep /\ ~ReadyClosed) => UNCHANGED coordVars]_vars

\* C8 witness: bazilfuse.Mount has not returned, and a WaitForReady call
\* entered with a cancelled context has returned context.Canceled while the
\* outcome fields and channels are as Mount created them.
C8_Witness ==
  /\ pc = "mount" /\ ~ReadyClosed /\ ~JoinClosed
  /\ readyStatus = Nil /\ joinStatus = Nil
  /\ \E r \in Callers :
       /\ Returned(r, "WaitForReady") /\ r.at.ctx = "Canceled"
       /\ r.ret = CtxErr("Canceled") /\ ~r.readOutcome

\* C9 as stated: all WaitForReady (Join) calls entered after the channel was
\* closed return the same result.
C9_Original ==
  \A r1, r2 \in Callers :
    (/\ r1.op = r2.op /\ r1.op \in {"WaitForReady", "Join"}
     /\ r1.pc = "returned" /\ r2.pc = "returned"
     /\ r1.at.sig = "closed" /\ r2.at.sig = "closed") => r1.ret = r2.ret

\* C9 amended: every WaitForReady (Join) call entered after the channel was
\* closed and whose context is not done returns the stored outcome, the same
\* on every call; a call whose context is done returns the stored outcome or
\* its ctx.Err(); and no step of such a call changes anything but the
\* caller's own record.
C9_RepeatedCallsAgree ==
  /\ [](\A r \in Callers :
          (r.pc = "returned" /\ r.op \in {"WaitForReady", "Join"} /\ r.at.sig = "closed") =>
             /\ r.ctx = "live" => r.ret = StatusOf(r.op)
             /\ r.ret \in {StatusOf(r.op), CtxErr(r.ctx)})
  /\ [][WaitStep => UNCHANGED nonCallerVars]_vars

\* C9 witness: after both channels were closed, a WaitForReady call and a
\* Join call entered after the close have returned the stored outcomes, one
\* of them an error.
C9_Witness ==
  /\ ReadyClosed /\ JoinClosed /\ ~joinStatus.isNil
  /\ \E r \in Callers :
       Returned(r, "WaitForReady") /\ r.at.sig = "closed" /\ r.ret = readyStatus
  /\ \E r \in Callers :
       Returned(r, "Join") /\ r.at.sig = "closed" /\ r.ret = joinStatus

\* A step in which a caller's context becomes done, or a call returns
\* through its ctx.Done() case.
CancelStep ==
  /\ callers' # callers
  /\ \E r \in Callers, r2 \in BagToSet(callers') :
       /\ callers' = Becomes(r, r2)
       /\ r.pc = "select"
       /\ \/ r.ctx = "live" /\ r2.ctx # "live"
          \/ r2.pc = "returned" /\ ~r2.readOutcome

\* C10: a cancellation changes only the cancelled caller's record: it
\* leaves the outcome fields, the channels, both goroutines, the connection
\* and the mount untouched; no outcome field ever holds a ctx.Err(); and a
\* returned call with a live context returned the stored outcome.
C10_CancellationIsLocal ==
  /\ [][CancelStep => UNCHANGED nonCallerVars]_vars
  /\ [](\A k \in CtxKinds : readyStatus # CtxErr(k) /\ joinStatus # CtxErr(k))
  /\ [](\A r \in Callers :
          (r.pc = "returned" /\ r.op \in {"WaitForReady", "Join"} /\ r.ctx = "live") =>
             r.ret = StatusOf(r.op))

\* C10 witness: one WaitForReady call returned context.Canceled while
\* another, with a live context, returned the stored outcome, and the mount
\* went on to serve.
C10_Witness ==
  /\ ReadyClosed /\ pc = "serving"
  /\ \E r \in Callers :
       Returned(r, "WaitForReady") /\ r.ret = CtxErr("Canceled") /\ r.at.sig = "open"
  /\ \E r \in Callers :
       Returned(r, "WaitForReady") /\ r.ctx = "live" /\ r.ret = readyStatus


\* A step in which some caller calls Unmount.
UnmountStep ==
  /\ callers' # callers
  /\ \E r \in Callers, r2 \in BagToSet(callers') :
       r2.op = "Unmount" /\ r2.pc = "returned" /\ callers' = Becomes(r, r2)

\* C11: an Unmount call changes nothing but the kernel's mount of dir (and
\* the caller's own record): outcome fields, channels, both goroutines and
\* the connection stay as they are; joinStatusAvailable is only ever closed
\* by a step of mountAndServe taken after Serve has returned.
C11_UnmountSignalsNothing ==
  /\ [][UnmountStep =>
          /\ UNCHANGED <<mfs, coordVars, taskVars, conn, calls>>
          /\ mounted' = (IF mounted = "yes" THEN "gone" ELSE mounted)]_vars
  /\ [][(~JoinClosed /\ JoinClosed') =>
          /\ pc \in {"closeJoinErr", "closeJoinOk"} /\ pc' = "deferredClose"
          /\ calls.Serve = 1
          /\ ~UnmountStep]_vars

\* C11 witness: an Unmount call has succeeded while Serve is still blocked;
\* nothing is signaled yet.
C11_Witness ==
  /\ pc = "serving" /\ mounted = "gone" /\ ~JoinClosed /\ joinStatus = Nil
  /\ \E r \in Callers : Returned(r, "Unmount") /\ r.ret = Nil

\* The error stored for a failure e of the driver, of the readiness signal,
\* of Serve or of Close would have e's message as the tail of its message.
Carries(status, e) ==
  /\ ~status.isNil
  /\ Len(status.msg) >= Len(e.msg)
  /\ SubSeq(status.msg, Len(status.msg) - Len(e.msg) + 1, Len(status.msg)) = e.msg

\* C12 as stated: once mountAndServe and the readiness goroutine have
\* finished, every failure that occurred (driver mount, readiness error,
\* Serve error, Close error) is carried by an outcome field.
C12_NoErrorDropped ==
  (pc \in {"mountFailed", "done"} /\ readyPc \in {"unborn", "done"}) =>
     /\ DriverFailed => Carries(readyStatus, err)
     /\ ~conn.MountError.isNil => Carries(readyStatus, conn.MountError)
     /\ (DriverSucceeded /\ ~err.isNil) => Carries(joinStatus, err)
     /\ ~conn.closeErr.isNil =>
          (Carries(joinStatus, conn.closeErr) \/ Carries(readyStatus, conn.closeErr))

\* C13: after a successful driver mount, readyStatus is exactly c.MountError
\* from the assignment of line 102 on; a WaitForReady call with a live
\* context returns it, so it returns nil when c.MountError is nil, whatever
\* Serve returned.
C13_ReadyStatusIsMountError ==
  DriverSucceeded =>
     /\ readyPc \in {"closeReady", "done"} =>
          (readyStatus = conn.MountError /\ conn.Ready = "closed")
     /\ ReadyClosed => readyPc = "done"
     /\ \A r \in Callers :
          (Returned(r, "WaitForReady") /\ r.ctx = "live") => r.ret = conn.MountError

\* C13 witness: c.MountError is nil, Serve failed, and a WaitForReady call
\* with a live context returned nil.
C13_Witness ==
  /\ DriverSucceeded /\ ReadyClosed /\ conn.MountError = Nil
  /\ JoinClosed /\ ~joinStatus.isNil
  /\ \E r \in Callers : Returned(r, "WaitForReady") /\ r.ctx = "live" /\ r.ret = Nil

\* The values each outcome field can hold.
MountPhaseErrors ==
  {Err(<<"bazilfuse.Mount: ">> \o e.msg) : e \in DriverErrs} \cup ReadyErrs
ServePhaseErrors == {Err(<<"Serve: ">> \o e.msg) : e \in ServeErrs}

\* C14: readyStatus is nil or a mount-phase error, joinStatus is nil or a
\* serve-phase error; the two sets are disjoint; WaitForReady never returns
\* a serve-phase error and Join never returns a mount-phase error.
C14_DisjointErrorChannels ==
  /\ MountPhaseErrors \cap ServePhaseErrors = {}
  /\ readyStatus \in {Nil} \cup MountPhaseErrors
  /\ joinStatus \in {Nil} \cup ServePhaseErrors
  /\ \A r \in Callers :
       /\ Returned(r, "WaitForReady") => r.ret \notin ServePhaseErrors
       /\ Returned(r, "Join") => r.ret \notin MountPhaseErrors

\* C14 witness: readyStatus holds the readiness error, joinStatus the Serve
\* error, and each has been returned by its own operation.
C14_Witness ==
  /\ readyStatus \in ReadyErrs /\ joinStatus \in ServePhaseErrors
  /\ \E r \in Callers : Returned(r, "WaitForReady") /\ r.ret = readyStatus
  /\ \E r \in Callers : Returned(r, "Join") /\ r.ret = joinStatus

\* C15: no channel is closed twice: no close has hit a closed channel, no
\* close statement is ever about to run on a channel that is already closed,
\* and the driver-failure close of readyStatusAvailable never coexists with
\* the readiness goroutine.
C15_NoDoubleClose ==
  /\ ~panicked
  /\ ~(pc \in {"setReadyErr", "closeReadyErr", "mountFailed"} /\ readyPc # "unborn")
  /\ ReadyClosed => (pc # "closeReadyErr" /\ readyPc # "closeReady")
  /\ JoinClosed => pc \notin {"closeJoinErr", "closeJoinOk"}

\* C15 witness: both channels have been closed on the Serve-error path and
\* mountAndServe has returned.
C15_Witness ==
  /\ ReadyClosed /\ JoinClosed /\ ~panicked
  /\ pc = "done" /\ readyPc = "done" /\ ~err.isNil

\* C16 as stated: whenever joinStatusAvailable is closed, c.Close() has
\* already been called.
C16_ReleasedBeforeSignal ==
  JoinClosed => conn.closeCalls = 1

\* The states of the orchestration, as positions of mountAndServe.
Phase ==
  CASE pc = "unborn" -> "NotStarted"
    [] pc = "mount" -> "Mounting"
    [] pc \in {"setReadyErr", "closeReadyErr", "mountFailed"} -> "MountFailed"
    [] pc \in {"spawn", "callServe"} -> "Mounted"
    [] pc = "serving" -> "Serving"
    [] pc \in {"setJoinErr", "closeJoinErr", "closeJoinOk", "deferredClose", "done"}
         -> "Terminated"

PhaseEdges ==
  {<<"NotStarted", "Mounting">>, <<"Mounting", "MountFailed">>,
   <<"Mounting", "Mounted">>, <<"Mounted", "Serving">>, <<"Serving", "Terminated">>}

\* C17: mountAndServe moves only Mounting -> MountFailed or Mounting ->
\* Mounted -> Serving -> Terminated and never leaves MountFailed or
\* Terminated; once it has returned none of its steps is enabled;
\* bazilfuse.Mount is called exactly once and Serve at most once (exactly
\* once from Serving on, never on the failure path).
C17_OrchestrationPath ==
  /\ [][Phase' # Phase => <<Phase, Phase'>> \in PhaseEdges]_vars
  /\ [](pc \in {"mountFailed", "done"} =>
          ~ENABLED (OrchestrationStep \/ DriverMountReturns
                      \/ \E r \in ServeErrs \cup {Nil} : ServeReturns(r)))
  /\ [](/\ calls.Mount = (IF Phase \in {"NotStarted", "Mounting"} THEN 0 ELSE 1)
        /\ calls.Serve = (IF Phase \in {"Serving", "Terminated"} THEN 1 ELSE 0))

\* C17 witness: Serve failed and mountAndServe has returned, after one call
\* of bazilfuse.Mount and one of Serve.
C17_Witness ==
  /\ pc = "done" /\ ~err.isNil /\ calls = [Mount |-> 1, Serve |-> 1]

\* C18 as stated: joinStatusAvailable is never closed while
\* readyStatusAvailable is open.
C18_ReadyBeforeJoin ==
  JoinClosed => ReadyClosed

\* C18 amended: when joinStatusAvailable is closed the readiness goroutine
\* has been started, but readyStatusAvailable may still be open; it is
\* closed eventually.
C18_JoinImpliesReadinessStarted ==
  /\ [](JoinClosed => (DriverSucceeded /\ readyPc # "unborn"))
  /\ JoinClosed ~> ReadyClosed

\* C18 witness: Serve has returned and joinStatusAvailable is closed while
\* the readiness goroutine still waits for c.Ready.
C18_Witness ==
  /\ JoinClosed /\ ~ReadyClosed /\ readyPc = "waitReady" /\ conn.Ready = "open"

\* C20: c.Close() is called at most once, only by mountAndServe's deferred
\* call after Serve has returned, never on the driver-failure path, and
\* never by an Unmount call or a caller's step.
C20_ReleaseSafety ==
  /\ [](/\ conn.closeCalls <= 1
        /\ conn.closeCalls = 1 => (pc = "done" /\ DriverSucceeded /\ calls.Serve = 1)
        /\ DriverFailed => conn.closeCalls = 0
        /\ pc \in {"unborn", "mount", "spawn", "callServe", "serving"}
             => conn.closeCalls = 0)
  /\ [][conn'.closeCalls # conn.closeCalls =>
          (pc = "deferredClose" /\ pc' = "done" /\ callers' = callers)]_vars

\* C20 witness: after a successful Unmount and a cancelled Join,
\* mountAndServe has returned and c.Close() has been called once.
C20_Witness ==
  /\ pc = "done" /\ conn.closeCalls = 1 /\ mounted = "gone"
  /\ \E r \in Callers : Returned(r, "Join") /\ r.ret = CtxErr("Canceled")

\* The marked caller's record.
TrackedIs(pcs) == \E r \in Callers : r.tracked /\ r.pc \in pcs

\* C19: a WaitForReady or Join call whose context is done eventually
\* returns, whatever mountAndServe does or fails to do; and a call that
\* returns while its channel is still open returns ctx.Err().
C19_CancelledCallReturns ==
  /\ (\E r \in Callers : r.tracked /\ r.pc = "select" /\ r.ctx # "live")
        ~> TrackedIs({"returned"})
  /\ [](\A r \in Callers :
          (/\ r.pc = "returned" /\ r.op \in {"WaitForReady", "Join"}
           /\ (IF r.op = "WaitForReady" THEN ~ReadyClosed ELSE ~JoinClosed))
             => r.ret = CtxErr(r.ctx))


\* C19 witness: on the driver-failure path, where joinStatusAvailable is
\* never closed, the marked caller's Join has returned ctx.Err().
C19_Witness ==
  /\ pc = "mountFailed" /\ ~JoinClosed
  /\ \E r \in Callers :
       r.tracked /\ Returned(r, "Join") /\ r.ret = CtxErr("Canceled")

====
